---- MODULE Spec2Model ----
(***************************************************************************)
(* A model of the 2-3 tree of src/src/two_three_tree.rs.                   *)
(*                                                                         *)
(* A tree value is the pair (root, size) of struct TwoThreeTree.  Nodes    *)
(* are records with the five fields of struct TwoThreeNode.  An            *)
(* Option<T> is a sequence of length 0 (None) or 1 (Some).  The recursive  *)
(* functions that mutate a node through &mut are operators that return    *)
(* the node as it is left in memory next to their result.                  *)
(***************************************************************************)
EXTENDS Integers, Sequences, FiniteSets, TLC

VARIABLES root, size, map, last

vars == <<root, size, map, last>>

\* Keys handed to insert and delete are 1..MaxKey.
MaxKey == 12

\* Bounds of the tree values handed to validate() in SpecValidate.
VMaxKey == 3
VMaxSize == 5

Keys == 1..MaxKey

----------------------------------------------------------------------------
\* Option<T>

None == <<>>

Some(x) == <<x>>

is_none(o) == o = <<>>

is_some(o) == o # <<>>

unwrap(o) == o[1]

----------------------------------------------------------------------------
\* Element, TwoThreeNode

\* let x = value in body(x), the value computed once.
let_in(value, body(_)) == CHOOSE y \in {body(x) : x \in {value}} : TRUE

Element(k, v) == [key |-> k, value |-> v]

new_node(element) ==
    [elem1 |-> element, elem2 |-> None,
     child1 |-> None, child2 |-> None, child3 |-> None]

InsertSubtree(e, c1, c2) == [parent_element |-> e, child1 |-> c1, child2 |-> c2]

\* new_node(e) with child1 and child2 set, as the split branches build it.
node_with(e, c1, c2) ==
    [new_node(e) EXCEPT !.child1 = c1, !.child2 = c2]

----------------------------------------------------------------------------
\* insert_node: returns the node as left in place and the Option<InsertSubtree>.

RECURSIVE insert_node(_, _)
insert_node(node, element) ==
    IF is_some(node.child1) THEN
        IF element.key <= node.elem1.key THEN
            LET r == insert_node(unwrap(node.child1), element) IN
            IF is_some(r.result) THEN
                LET new_subtree == unwrap(r.result) IN
                IF is_none(node.elem2) THEN
                    [node |-> [elem1 |-> new_subtree.parent_element,
                               elem2 |-> Some(node.elem1),
                               child1 |-> Some(new_subtree.child1),
                               child2 |-> Some(new_subtree.child2),
                               child3 |-> node.child2],
                     result |-> None]
                ELSE
                    LET left_node == node_with(new_subtree.parent_element,
                                               Some(new_subtree.child1),
                                               Some(new_subtree.child2))
                        right_node == node_with(unwrap(node.elem2),
                                                node.child2, node.child3)
                    IN  [node |-> [node EXCEPT !.child1 = Some(r.node),
                                               !.child2 = None,
                                               !.child3 = None],
                         result |-> Some(InsertSubtree(node.elem1,
                                                       left_node, right_node))]
            ELSE
                [node |-> [node EXCEPT !.child1 = Some(r.node)], result |-> None]
        ELSE IF is_none(node.elem2) \/ element.key <= unwrap(node.elem2).key THEN
            LET r == insert_node(unwrap(node.child2), element) IN
            IF is_some(r.result) THEN
                LET new_subtree == unwrap(r.result) IN
                IF is_none(node.elem2) THEN
                    [node |-> [node EXCEPT !.elem2 = Some(new_subtree.parent_element),
                                           !.child2 = Some(new_subtree.child1),
                                           !.child3 = Some(new_subtree.child2)],
                     result |-> None]
                ELSE
                    LET left_node == node_with(node.elem1, node.child1,
                                               Some(new_subtree.child1))
                        right_node == node_with(unwrap(node.elem2),
                                                Some(new_subtree.child2),
                                                node.child3)
                    IN  [node |-> [node EXCEPT !.child1 = None,
                                               !.child2 = Some(r.node),
                                               !.child3 = None],
                         result |-> Some(InsertSubtree(new_subtree.parent_element,
                                                       left_node, right_node))]
            ELSE
                [node |-> [node EXCEPT !.child2 = Some(r.node)], result |-> None]
        ELSE
            LET r == insert_node(unwrap(node.child3), element) IN
            IF is_some(r.result) THEN
                LET new_subtree == unwrap(r.result)
                    left_node == node_with(node.elem1, node.child1, node.child2)
                    right_node == node_with(new_subtree.parent_element,
                                            Some(new_subtree.child1),
                                            Some(new_subtree.child2))
                IN  [node |-> [node EXCEPT !.child1 = None,
                                           !.child2 = None,
                                           !.child3 = Some(r.node)],
                     result |-> Some(InsertSubtree(unwrap(node.elem2),
                                                   left_node, right_node))]
            ELSE
                [node |-> [node EXCEPT !.child3 = Some(r.node)], result |-> None]
    ELSE IF is_some(node.elem2) THEN
        LET elem2 == unwrap(node.elem2) IN
        IF element.key < node.elem1.key THEN
            [node |-> node,
             result |-> Some(InsertSubtree(node.elem1, new_node(element),
                                           new_node(elem2)))]
        ELSE IF element.key < elem2.key THEN
            [node |-> node,
             result |-> Some(InsertSubtree(element, new_node(node.elem1),
                                           new_node(elem2)))]
        ELSE
            [node |-> node,
             result |-> Some(InsertSubtree(elem2, new_node(node.elem1),
                                           new_node(element)))]
    ELSE IF node.elem1.key <= element.key THEN
        [node |-> [node EXCEPT !.elem2 = Some(element)], result |-> None]
    ELSE
        [node |-> [node EXCEPT !.elem2 = Some(node.elem1), !.elem1 = element],
         result |-> None]

\* The number of the child that insert_node recurses into at a non-leaf node.
insert_child_num(node, element) ==
    IF element.key <= node.elem1.key THEN 1
    ELSE IF is_none(node.elem2) \/ element.key <= unwrap(node.elem2).key THEN 2
    ELSE 3

RECURSIVE InsertPath(_, _)
\* The nodes insert_node is called on, from node down to the leaf.
InsertPath(node, element) ==
    IF is_none(node.child1) THEN <<node>>
    ELSE <<node>> \o InsertPath(unwrap(IF insert_child_num(node, element) = 1
                                       THEN node.child1
                                       ELSE IF insert_child_num(node, element) = 2
                                       THEN node.child2
                                       ELSE node.child3),
                                element)

\* insert's match on self.root, dropping a split that comes out of the root.
insert_root_ignoring_split(r, element) ==
    IF is_none(r) THEN Some(new_node(element))
    ELSE Some(insert_node(unwrap(r), element).node)

\* The root after insert(element).
insert_root(r, element) ==
    IF is_none(r) THEN Some(new_node(element))
    ELSE LET res == insert_node(unwrap(r), element) IN
         IF is_some(res.result) THEN
             LET new_subtree == unwrap(res.result) IN
             Some(node_with(new_subtree.parent_element,
                            Some(new_subtree.child1),
                            Some(new_subtree.child2)))
         ELSE Some(res.node)

\* The settings of overflow checks a build of the program can have: on (a
\* debug build) or off (a release build).
OverflowChecks == BOOLEAN

\* self.size += 1 panics when the size is 2^64 - 1 and overflow checks are on.
\* A size is a usize, kept modulo 2^64; 2^64 - 1 is written -1 here (the same
\* residue modulo 2^64).
add_overflows(s, overflow_checks) == s = -1 /\ overflow_checks

\* The size after self.size += 1: with overflow checks off 2^64 - 1 wraps to
\* 0; with overflow checks on the size stays and the call panics.
add_one(s, overflow_checks) == IF add_overflows(s, overflow_checks) THEN s ELSE s + 1

\* insert without the size += 1.
insert_without_count(r, s, element, overflow_checks) ==
    [root |-> insert_root(r, element), size |-> s, panic |-> FALSE]

\* insert: the tree (root, size) after insert(element), and whether the call
\* ended in a panic (size += 1 on a size of 2^64 - 1 in a build with overflow
\* checks, the root already assigned).
insert(r, s, element, overflow_checks) ==
    [root |-> insert_root(r, element),
     size |-> add_one(s, overflow_checks),
     panic |-> add_overflows(s, overflow_checks)]

----------------------------------------------------------------------------
\* DeletePhase, DeleteState

Downwards == <<"Downwards">>

FixHole == <<"FixHole">>

Done(found) == <<"Done", found>>

\* The phase left by a panic!() or a failed unwrap(): the program has aborted.
Panicked == <<"Panicked">>

DeleteState(key) == [key |-> key, phase |-> Downwards, predecessor |-> None]

----------------------------------------------------------------------------
\* add_left, add_right, trim_right, trim_left

\* add_left with its two element assignments in the other order: elem2 is set
\* after elem1 was overwritten.
add_left_elem1_first(node, elem1, child1) ==
    [elem1 |-> elem1, elem2 |-> Some(elem1),
     child1 |-> child1, child2 |-> node.child1, child3 |-> node.child2]

add_left(node, elem1, child1) ==
    [elem1 |-> elem1, elem2 |-> Some(node.elem1),
     child1 |-> child1, child2 |-> node.child1, child3 |-> node.child2]

\* add_right that sets the element and leaves child3 as it was.
add_right_without_child3(node, elem2, child3) ==
    [node EXCEPT !.elem2 = Some(elem2)]

add_right(node, elem2, child3) ==
    [node EXCEPT !.elem2 = Some(elem2), !.child3 = child3]

\* trim_right that returns the element and leaves child3 where it was.
trim_right_without_child3(node) ==
    [node |-> [node EXCEPT !.elem2 = None],
     elem |-> unwrap(node.elem2), child |-> None]

\* trim_left that gives away elem2 instead of elem1.
trim_left_takes_elem2(node) ==
    [node |-> [elem1 |-> node.elem1, elem2 |-> None,
               child1 |-> node.child2, child2 |-> node.child3, child3 |-> None],
     elem |-> unwrap(node.elem2), child |-> node.child1]

\* trim_right, trim_left: the node as left in place, and the returned pair.
trim_right(node) ==
    [node |-> [node EXCEPT !.elem2 = None, !.child3 = None],
     elem |-> unwrap(node.elem2), child |-> node.child3]

trim_left(node) ==
    [node |-> [elem1 |-> unwrap(node.elem2), elem2 |-> None,
               child1 |-> node.child2, child2 |-> node.child3, child3 |-> None],
     elem |-> node.elem1, child |-> node.child1]

----------------------------------------------------------------------------
\* fix_hole_2node whose merges report Done(true) instead of passing the hole up.
fix_hole_2node_merge_done(node, child_num, state) ==
    LET child1 == unwrap(node.child1)
        child2 == unwrap(node.child2)
        done == [state EXCEPT !.phase = Done(TRUE)]
    IN
    IF child_num = 1 THEN
        IF is_none(child2.elem2) THEN
            [node |-> [node EXCEPT
                         !.child1 = Some(add_left(child2, node.elem1, child1.child1)),
                         !.child2 = None],
             state |-> done]
        ELSE
            LET t == trim_left(child2) IN
            [node |-> [node EXCEPT
                         !.elem1 = t.elem,
                         !.child1 = Some([child1 EXCEPT !.elem1 = node.elem1,
                                                        !.child2 = t.child]),
                         !.child2 = Some(t.node)],
             state |-> done]
    ELSE
        IF is_none(child1.elem2) THEN
            [node |-> [node EXCEPT
                         !.child1 = Some(add_right(child1, node.elem1, child2.child1)),
                         !.child2 = Some([child2 EXCEPT !.child1 = None])],
             state |-> done]
        ELSE
            LET t == trim_right(child1) IN
            [node |-> [node EXCEPT
                         !.elem1 = t.elem,
                         !.child1 = Some(t.node),
                         !.child2 = Some([child2 EXCEPT !.elem1 = node.elem1,
                                                        !.child2 = child2.child1,
                                                        !.child1 = t.child])],
             state |-> done]

\* fix_hole_2node whose borrows leave the phase as it is.
fix_hole_2node_borrow_not_done(node, child_num, state) ==
    LET child1 == unwrap(node.child1)
        child2 == unwrap(node.child2)
    IN
    IF child_num = 1 THEN
        IF is_none(child2.elem2) THEN
            [node |-> [node EXCEPT
                         !.child1 = Some(add_left(child2, node.elem1, child1.child1)),
                         !.child2 = None],
             state |-> state]
        ELSE
            LET t == trim_left(child2) IN
            [node |-> [node EXCEPT
                         !.elem1 = t.elem,
                         !.child1 = Some([child1 EXCEPT !.elem1 = node.elem1,
                                                        !.child2 = t.child]),
                         !.child2 = Some(t.node)],
             state |-> state]
    ELSE
        IF is_none(child1.elem2) THEN
            [node |-> [node EXCEPT
                         !.child1 = Some(add_right(child1, node.elem1, child2.child1)),
                         !.child2 = Some([child2 EXCEPT !.child1 = None])],
             state |-> state]
        ELSE
            LET t == trim_right(child1) IN
            [node |-> [node EXCEPT
                         !.elem1 = t.elem,
                         !.child1 = Some(t.node),
                         !.child2 = Some([child2 EXCEPT !.elem1 = node.elem1,
                                                        !.child2 = child2.child1,
                                                        !.child1 = t.child])],
             state |-> state]

\* delete_node_upward, FixHole branch under a 2-node.

fix_hole_2node(node, child_num, state) ==
    LET child1 == unwrap(node.child1)
        child2 == unwrap(node.child2)
    IN
    IF child_num = 1 THEN
        IF is_none(child2.elem2) THEN
            [node |-> [node EXCEPT
                         !.child1 = Some(add_left(child2, node.elem1, child1.child1)),
                         !.child2 = None],
             state |-> state]
        ELSE
            LET t == trim_left(child2) IN
            [node |-> [node EXCEPT
                         !.elem1 = t.elem,
                         !.child1 = Some([child1 EXCEPT !.elem1 = node.elem1,
                                                        !.child2 = t.child]),
                         !.child2 = Some(t.node)],
             state |-> [state EXCEPT !.phase = Done(TRUE)]]
    ELSE
        IF is_none(child1.elem2) THEN
            [node |-> [node EXCEPT
                         !.child1 = Some(add_right(child1, node.elem1, child2.child1)),
                         !.child2 = Some([child2 EXCEPT !.child1 = None])],
             state |-> state]
        ELSE
            LET t == trim_right(child1) IN
            [node |-> [node EXCEPT
                         !.elem1 = t.elem,
                         !.child1 = Some(t.node),
                         !.child2 = Some([child2 EXCEPT !.elem1 = node.elem1,
                                                        !.child2 = child2.child1,
                                                        !.child1 = t.child])],
             state |-> [state EXCEPT !.phase = Done(TRUE)]]

\* The sibling of the hole that delete_node_upward examines: under a 2-node,
\* child2 when child_num is 1 and child1 otherwise; under a 3-node, child2 when
\* child_num is 1, child1 when it is 2, and child2 otherwise.
hole_sibling(node, child_num) ==
    IF is_none(node.elem2) THEN
        IF child_num = 1 THEN unwrap(node.child2) ELSE unwrap(node.child1)
    ELSE
        IF child_num = 1 THEN unwrap(node.child2)
        ELSE IF child_num = 2 THEN unwrap(node.child1)
        ELSE unwrap(node.child2)

\* fix_hole_3node whose merge into child2 leaves the emptied hole in child3.
fix_hole_3node_keeping_child3(node, child_num, state) ==
    LET child1 == unwrap(node.child1)
        child2 == unwrap(node.child2)
        child3 == unwrap(node.child3)
        done == [state EXCEPT !.phase = Done(TRUE)]
    IN
    IF child_num = 1 THEN
        IF is_none(child2.elem2) THEN
            LET merged == add_left(child2, node.elem1, child1.child1) IN
            [node |-> trim_left([node EXCEPT
                                   !.child1 = Some([child1 EXCEPT !.child1 = None]),
                                   !.child2 = Some(merged)]).node,
             state |-> done]
        ELSE
            LET t == trim_left(child2) IN
            [node |-> [node EXCEPT
                         !.elem1 = t.elem,
                         !.child1 = Some([child1 EXCEPT !.elem1 = node.elem1,
                                                        !.child2 = t.child]),
                         !.child2 = Some(t.node)],
             state |-> done]
    ELSE IF child_num = 2 THEN
        IF is_none(child1.elem2) THEN
            [node |-> [node EXCEPT
                         !.elem1 = unwrap(node.elem2),
                         !.elem2 = None,
                         !.child1 = Some(add_right(child1, node.elem1, child2.child1)),
                         !.child2 = node.child3,
                         !.child3 = None],
             state |-> done]
        ELSE
            LET t == trim_right(child1) IN
            [node |-> [node EXCEPT
                         !.elem1 = t.elem,
                         !.child1 = Some(t.node),
                         !.child2 = Some([child2 EXCEPT !.elem1 = node.elem1,
                                                        !.child2 = child2.child1,
                                                        !.child1 = t.child])],
             state |-> done]
    ELSE IF is_none(child2.elem2) THEN
        [node |-> [node EXCEPT
                     !.elem2 = None,
                     !.child2 = Some(add_right(child2, unwrap(node.elem2), child3.child1)),
                     !.child3 = Some([child3 EXCEPT !.child1 = None])],
         state |-> done]
    ELSE
        LET result == trim_right(child2) IN
        [node |-> [node EXCEPT
                     !.elem2 = Some(result.elem),
                     !.child2 = Some(result.node),
                     !.child3 = Some([child3 EXCEPT !.elem1 = unwrap(node.elem2),
                                                    !.child2 = child3.child1,
                                                    !.child1 = result.child])],
         state |-> done]

\* delete_node_upward, FixHole branch under a 3-node.
fix_hole_3node(node, child_num, state) ==
    LET child1 == unwrap(node.child1)
        child2 == unwrap(node.child2)
        child3 == unwrap(node.child3)
        done == [state EXCEPT !.phase = Done(TRUE)]
    IN
    IF child_num = 1 THEN
        IF is_none(child2.elem2) THEN
            LET merged == add_left(child2, node.elem1, child1.child1) IN
            [node |-> trim_left([node EXCEPT
                                   !.child1 = Some([child1 EXCEPT !.child1 = None]),
                                   !.child2 = Some(merged)]).node,
             state |-> done]
        ELSE
            LET t == trim_left(child2) IN
            [node |-> [node EXCEPT
                         !.elem1 = t.elem,
                         !.child1 = Some([child1 EXCEPT !.elem1 = node.elem1,
                                                        !.child2 = t.child]),
                         !.child2 = Some(t.node)],
             state |-> done]
    ELSE IF child_num = 2 THEN
        IF is_none(child1.elem2) THEN
            [node |-> [node EXCEPT
                         !.elem1 = unwrap(node.elem2),
                         !.elem2 = None,
                         !.child1 = Some(add_right(child1, node.elem1, child2.child1)),
                         !.child2 = node.child3,
                         !.child3 = None],
             state |-> done]
        ELSE
            LET t == trim_right(child1) IN
            [node |-> [node EXCEPT
                         !.elem1 = t.elem,
                         !.child1 = Some(t.node),
                         !.child2 = Some([child2 EXCEPT !.elem1 = node.elem1,
                                                        !.child2 = child2.child1,
                                                        !.child1 = t.child])],
             state |-> done]
    ELSE IF is_none(child2.elem2) THEN
        [node |-> [node EXCEPT
                     !.elem2 = None,
                     !.child2 = Some(add_right(child2, unwrap(node.elem2), child3.child1)),
                     !.child3 = None],
         state |-> done]
    ELSE
        LET result == trim_right(child2) IN
        [node |-> [node EXCEPT
                     !.elem2 = Some(result.elem),
                     !.child2 = Some(result.node),
                     !.child3 = Some([child3 EXCEPT !.elem1 = unwrap(node.elem2),
                                                    !.child2 = child3.child1,
                                                    !.child1 = result.child])],
         state |-> done]

\* delete_node_upward that returns early on Done(true) only, and fixes a hole
\* on every other phase.
delete_node_upward_unless_deleted(node, child_num, state) ==
    IF state.phase = Done(TRUE) THEN [node |-> node, state |-> state]
    ELSE IF is_none(node.child1) \/ is_none(node.child2) THEN
        [node |-> node, state |-> [state EXCEPT !.phase = Panicked]]
    ELSE IF is_none(node.elem2) THEN fix_hole_2node(node, child_num, state)
    ELSE IF is_none(node.child3) THEN
        [node |-> node, state |-> [state EXCEPT !.phase = Panicked]]
    ELSE fix_hole_3node(node, child_num, state)

\* delete_node_upward: the node as left in place and the state.
delete_node_upward(node, child_num, state) ==
    IF state.phase[1] = "Done" THEN [node |-> node, state |-> state]
    ELSE IF state.phase = FixHole THEN
        IF is_none(node.child1) \/ is_none(node.child2) THEN
            [node |-> node, state |-> [state EXCEPT !.phase = Panicked]]
        ELSE IF is_none(node.elem2) THEN fix_hole_2node(node, child_num, state)
        ELSE IF is_none(node.child3) THEN
            [node |-> node, state |-> [state EXCEPT !.phase = Panicked]]
        ELSE fix_hole_3node(node, child_num, state)
    ELSE [node |-> node, state |-> [state EXCEPT !.phase = Panicked]]

----------------------------------------------------------------------------
\* find_predecessor: the node as left in place and the state.

RECURSIVE find_predecessor(_, _)

\* find_predecessor at a node with a child3 or a child2: the node, the child
\* number and the state it hands to delete_node_upward after the recursive call.
predecessor_descend(node, state) ==
    IF is_some(node.child3) THEN
        let_in(find_predecessor(unwrap(node.child3), state),
               LAMBDA r :
                   [node |-> [node EXCEPT !.child3 = Some(r.node)], child_num |-> 3,
                    state |-> r.state, callee |-> "find_predecessor"])
    ELSE
        let_in(find_predecessor(unwrap(node.child2), state),
               LAMBDA r :
                   [node |-> [node EXCEPT !.child2 = Some(r.node)], child_num |-> 2,
                    state |-> r.state, callee |-> "find_predecessor"])

\* find_predecessor at a leaf: the predecessor element is saved and taken out.
predecessor_leaf(node, state) ==
    IF is_some(node.elem2) THEN
        [node |-> [node EXCEPT !.elem2 = None],
         state |-> [state EXCEPT !.predecessor = node.elem2,
                                 !.phase = Done(TRUE)]]
    ELSE
        [node |-> node,
         state |-> [state EXCEPT !.predecessor = Some(node.elem1),
                                 !.phase = FixHole]]

find_predecessor(node, state) ==
    IF is_some(node.child3) \/ is_some(node.child2) THEN
        let_in(predecessor_descend(node, state),
               LAMBDA a :
                   IF a.state.phase = Panicked
                   THEN [node |-> a.node, state |-> a.state]
                   ELSE delete_node_upward(a.node, a.child_num, a.state))
    ELSE predecessor_leaf(node, state)

----------------------------------------------------------------------------
\* delete_node: the node as left in place and the state.

\* The leaf arm of delete_node, clearing elem2 without moving it to elem1.
delete_leaf_without_move(node, state) ==
    IF node.elem1.key = state.key THEN
        IF is_some(node.elem2) THEN
            [node |-> [node EXCEPT !.elem2 = None],
             state |-> [state EXCEPT !.phase = Done(TRUE)]]
        ELSE
            [node |-> node, state |-> [state EXCEPT !.phase = FixHole]]
    ELSE IF is_some(node.elem2) /\ unwrap(node.elem2).key = state.key THEN
        [node |-> [node EXCEPT !.elem2 = None],
         state |-> [state EXCEPT !.phase = Done(TRUE)]]
    ELSE
        [node |-> node, state |-> [state EXCEPT !.phase = Done(FALSE)]]

\* The leaf arm of delete_node, leaving the phase as it is when the key is
\* not in the leaf.
delete_leaf_phase_not_set(node, state) ==
    IF node.elem1.key = state.key THEN
        IF is_some(node.elem2) THEN
            [node |-> [node EXCEPT !.elem1 = unwrap(node.elem2), !.elem2 = None],
             state |-> [state EXCEPT !.phase = Done(TRUE)]]
        ELSE
            [node |-> node, state |-> [state EXCEPT !.phase = FixHole]]
    ELSE IF is_some(node.elem2) /\ unwrap(node.elem2).key = state.key THEN
        [node |-> [node EXCEPT !.elem2 = None],
         state |-> [state EXCEPT !.phase = Done(TRUE)]]
    ELSE
        [node |-> node, state |-> state]

\* The leaf arm of delete_node.
delete_leaf(node, state) ==
    IF node.elem1.key = state.key THEN
        IF is_some(node.elem2) THEN
            [node |-> [node EXCEPT !.elem1 = unwrap(node.elem2), !.elem2 = None],
             state |-> [state EXCEPT !.phase = Done(TRUE)]]
        ELSE
            [node |-> node, state |-> [state EXCEPT !.phase = FixHole]]
    ELSE IF is_some(node.elem2) /\ unwrap(node.elem2).key = state.key THEN
        [node |-> [node EXCEPT !.elem2 = None],
         state |-> [state EXCEPT !.phase = Done(TRUE)]]
    ELSE
        [node |-> node, state |-> [state EXCEPT !.phase = Done(FALSE)]]

\* A failed unwrap() in the non-leaf arm of delete_node.
unwrap_failed(node, state) ==
    [node |-> node, state |-> [state EXCEPT !.phase = Panicked]]

RECURSIVE delete_node(_, _)

\* What delete_node holds after the call it made on a child: the node with the
\* child as the call left it, the number of the child, the state, and the
\* function called.
descended(node, child_num, r, callee) ==
    [node |-> IF child_num = 1 THEN [node EXCEPT !.child1 = Some(r.node)]
              ELSE IF child_num = 2 THEN [node EXCEPT !.child2 = Some(r.node)]
              ELSE [node EXCEPT !.child3 = Some(r.node)],
     child_num |-> child_num, state |-> r.state, callee |-> callee]

\* delete_node at a node with a child1: the node, the child number and the
\* state it has after the recursive call, and the function it called on the
\* child.  An unwrap() that fails before the call leaves child number 0 and
\* callee "none"; a call that panics leaves the phase Panicked and the node's
\* own elements as they were.
delete_descend(node, state) ==
    IF state.key < node.elem1.key THEN
        let_in(delete_node(unwrap(node.child1), state),
               LAMBDA r : descended(node, 1, r, "delete_node"))
    ELSE IF state.key > node.elem1.key THEN
        IF is_some(node.elem2) THEN
            IF state.key < unwrap(node.elem2).key THEN
                IF is_none(node.child2) THEN
                    unwrap_failed(node, state) @@ [child_num |-> 0, callee |-> "none"]
                ELSE
                    let_in(delete_node(unwrap(node.child2), state),
                           LAMBDA r : descended(node, 2, r, "delete_node"))
            ELSE IF state.key > unwrap(node.elem2).key THEN
                IF is_none(node.child3) THEN
                    unwrap_failed(node, state) @@ [child_num |-> 0, callee |-> "none"]
                ELSE
                    let_in(delete_node(unwrap(node.child3), state),
                           LAMBDA r : descended(node, 3, r, "delete_node"))
            ELSE
                IF is_none(node.child2) THEN
                    unwrap_failed(node, state) @@ [child_num |-> 0, callee |-> "none"]
                ELSE
                    let_in(find_predecessor(unwrap(node.child2), state),
                           LAMBDA r :
                               IF r.state.phase = Panicked
                               THEN descended(node, 2, r, "find_predecessor")
                               ELSE descended(
                                        [node EXCEPT
                                           !.elem2 = Some(unwrap(r.state.predecessor))],
                                        2, r, "find_predecessor"))
        ELSE
            IF is_none(node.child2) THEN
                unwrap_failed(node, state) @@ [child_num |-> 0, callee |-> "none"]
            ELSE
                let_in(delete_node(unwrap(node.child2), state),
                       LAMBDA r : descended(node, 2, r, "delete_node"))
    ELSE
        let_in(find_predecessor(unwrap(node.child1), state),
               LAMBDA r :
                   IF r.state.phase = Panicked
                   THEN descended(node, 1, r, "find_predecessor")
                   ELSE descended([node EXCEPT !.elem1 = unwrap(r.state.predecessor)],
                                  1, r, "find_predecessor"))

\* delete_node_upward is called unless an unwrap() or the call below panicked.
delete_node(node, state) ==
    IF is_none(node.child1) THEN delete_leaf(node, state)
    ELSE let_in(delete_descend(node, state),
                LAMBDA a :
                    IF a.state.phase = Panicked
                    THEN [node |-> a.node, state |-> a.state]
                    ELSE delete_node_upward(a.node, a.child_num, a.state))

\* The child of a node with the given child number.
child_of(node, child_num) ==
    unwrap(IF child_num = 1 THEN node.child1
           ELSE IF child_num = 2 THEN node.child2
           ELSE node.child3)

\* One call of delete_node_upward: the node when its frame was entered, the
\* node, child number and phase handed to delete_node_upward, and what
\* delete_node_upward left.
Frame(entered, a) ==
    [entered |-> entered, node |-> a.node, child_num |-> a.child_num,
     phase |-> a.state.phase, callee |-> a.callee,
     out |-> delete_node_upward(a.node, a.child_num, a.state)]

RECURSIVE Frames(_, _, _)
\* The calls of delete_node_upward made by function (delete_node or
\* find_predecessor) called on node, the outermost first: the call of this
\* frame, unless a panic came before it, then the calls made below.
Frames(node, state, function) ==
    IF function = "delete_node" THEN
        IF is_none(node.child1) THEN <<>>
        ELSE LET a == delete_descend(node, state) IN
             IF a.child_num = 0 THEN <<>>
             ELSE (IF a.state.phase = Panicked THEN <<>> ELSE <<Frame(node, a)>>)
                  \o Frames(child_of(node, a.child_num), state, a.callee)
    ELSE
        IF is_some(node.child3) \/ is_some(node.child2) THEN
            LET a == predecessor_descend(node, state) IN
            (IF a.state.phase = Panicked THEN <<>> ELSE <<Frame(node, a)>>)
            \o Frames(child_of(node, a.child_num), state, a.callee)
        ELSE <<>>

\* The calls of delete_node_upward made by delete(key) on the tree with root r.
FramesOf(r, key) ==
    IF is_some(r) THEN Frames(unwrap(r), DeleteState(key), "delete_node") ELSE <<>>

\* The phase in which delete_node returns to delete(key).
FinalPhase(r, key) == delete_node(unwrap(r), DeleteState(key)).state.phase

\* self.size -= 1 panics when the size is 0 and overflow checks are on.
sub_overflows(s, overflow_checks) == s = 0 /\ overflow_checks

\* The size after self.size -= 1.  A size is a usize, kept modulo 2^64: with
\* overflow checks off, 0 - 1 wraps to 2^64 - 1, which is written -1 here (the
\* same residue modulo 2^64); with overflow checks on the size stays 0 and the
\* call panics.
sub_one(s, overflow_checks) == IF sub_overflows(s, overflow_checks) THEN s ELSE s - 1

\* delete that keeps the old root when the hole comes out of the root.
delete_keeping_root(r, s, key, overflow_checks) ==
    IF is_some(r) THEN
        LET res == delete_node(unwrap(r), DeleteState(key)) IN
        IF res.state.phase[1] = "Done" THEN
            IF res.state.phase[2] THEN
                [root |-> Some(res.node), size |-> sub_one(s, overflow_checks),
                 ret |-> TRUE, panic |-> sub_overflows(s, overflow_checks)]
            ELSE
                [root |-> Some(res.node), size |-> s, ret |-> FALSE, panic |-> FALSE]
        ELSE IF res.state.phase = FixHole THEN
            [root |-> Some(res.node), size |-> sub_one(s, overflow_checks),
             ret |-> TRUE, panic |-> sub_overflows(s, overflow_checks)]
        ELSE
            [root |-> Some(res.node), size |-> s, ret |-> FALSE, panic |-> TRUE]
    ELSE
        [root |-> r, size |-> s, ret |-> FALSE, panic |-> FALSE]

\* delete, taking child2 of the old root when the hole comes out of the root.
delete_taking_child2(r, s, key, overflow_checks) ==
    IF is_some(r) THEN
        LET res == delete_node(unwrap(r), DeleteState(key)) IN
        IF res.state.phase[1] = "Done" THEN
            IF res.state.phase[2] THEN
                [root |-> Some(res.node), size |-> sub_one(s, overflow_checks),
                 ret |-> TRUE, panic |-> sub_overflows(s, overflow_checks)]
            ELSE
                [root |-> Some(res.node), size |-> s, ret |-> FALSE, panic |-> FALSE]
        ELSE IF res.state.phase = FixHole THEN
            [root |-> res.node.child2, size |-> sub_one(s, overflow_checks),
             ret |-> TRUE, panic |-> sub_overflows(s, overflow_checks)]
        ELSE
            [root |-> Some(res.node), size |-> s, ret |-> FALSE, panic |-> TRUE]
    ELSE
        [root |-> r, size |-> s, ret |-> FALSE, panic |-> FALSE]

\* delete, leaving the size as it is when the hole comes out of the root.
delete_without_count(r, s, key, overflow_checks) ==
    IF is_some(r) THEN
        LET res == delete_node(unwrap(r), DeleteState(key)) IN
        IF res.state.phase[1] = "Done" THEN
            IF res.state.phase[2] THEN
                [root |-> Some(res.node), size |-> sub_one(s, overflow_checks),
                 ret |-> TRUE, panic |-> sub_overflows(s, overflow_checks)]
            ELSE
                [root |-> Some(res.node), size |-> s, ret |-> FALSE, panic |-> FALSE]
        ELSE IF res.state.phase = FixHole THEN
            [root |-> res.node.child1, size |-> s, ret |-> TRUE, panic |-> FALSE]
        ELSE
            [root |-> Some(res.node), size |-> s, ret |-> FALSE, panic |-> TRUE]
    ELSE
        [root |-> r, size |-> s, ret |-> FALSE, panic |-> FALSE]

\* delete: the tree after delete(key), the value returned, and whether the call
\* ended in a panic (panic!(), a failed unwrap, or size -= 1 on a size of 0 in
\* a build with overflow checks).
delete(r, s, key, overflow_checks) ==
    IF is_some(r) THEN
        LET res == delete_node(unwrap(r), DeleteState(key)) IN
        IF res.state.phase[1] = "Done" THEN
            IF res.state.phase[2] THEN
                [root |-> Some(res.node), size |-> sub_one(s, overflow_checks),
                 ret |-> TRUE, panic |-> sub_overflows(s, overflow_checks)]
            ELSE
                [root |-> Some(res.node), size |-> s, ret |-> FALSE, panic |-> FALSE]
        ELSE IF res.state.phase = FixHole THEN
            [root |-> res.node.child1, size |-> sub_one(s, overflow_checks),
             ret |-> TRUE, panic |-> sub_overflows(s, overflow_checks)]
        ELSE
            [root |-> Some(res.node), size |-> s, ret |-> FALSE, panic |-> TRUE]
    ELSE
        [root |-> r, size |-> s, ret |-> FALSE, panic |-> FALSE]

----------------------------------------------------------------------------
\* find: Option<Element>

RECURSIVE find_node(_, _)
find_node(node, key) ==
    IF key < node.elem1.key THEN
        IF is_some(node.child1) THEN find_node(unwrap(node.child1), key) ELSE None
    ELSE IF key > node.elem1.key THEN
        IF is_some(node.elem2) THEN
            LET elem2 == unwrap(node.elem2) IN
            IF key < elem2.key THEN
                IF is_some(node.child2) THEN find_node(unwrap(node.child2), key)
                ELSE None
            ELSE IF key > elem2.key THEN
                IF is_some(node.child3) THEN find_node(unwrap(node.child3), key)
                ELSE None
            ELSE Some(elem2)
        ELSE IF is_some(node.child2) THEN find_node(unwrap(node.child2), key)
        ELSE None
    ELSE Some(node.elem1)

find(r, key) == IF is_some(r) THEN find_node(unwrap(r), key) ELSE None

is_empty(r) == is_none(r)

----------------------------------------------------------------------------
\* validate: TRUE when no assert!() and no unwrap() of the validation fails.

ValidateState == [leaf_level |-> 0, elements |-> 0, ok |-> TRUE]

\* validate_node_less_than with strict comparisons.
validate_node_less_than_strict(node, key_value) ==
    /\ node.elem1.key < key_value
    /\ (is_some(node.elem2) => unwrap(node.elem2).key < key_value)

validate_node_less_than(node, key_value) ==
    /\ node.elem1.key <= key_value
    /\ (is_some(node.elem2) => unwrap(node.elem2).key <= key_value)

validate_node_greater_than(node, key_value) ==
    /\ node.elem1.key >= key_value
    /\ (is_some(node.elem2) => unwrap(node.elem2).key >= key_value)

\* The state with ok = FALSE: an assertion of validate_node has failed.
failed(state) == [state EXCEPT !.ok = FALSE]

RECURSIVE validate_node(_, _, _)
validate_node(node, level, state) ==
    IF ~state.ok THEN state
    ELSE
    LET counted == [state EXCEPT !.elements =
                       state.elements + (IF is_some(node.elem2) THEN 2 ELSE 1)]
    IN
    IF is_some(node.elem2) /\ ~(node.elem1.key <= unwrap(node.elem2).key)
    THEN failed(counted)
    ELSE IF is_none(node.child1) THEN
        IF is_some(node.child2) \/ is_some(node.child3) THEN failed(counted)
        ELSE IF counted.leaf_level = 0 THEN [counted EXCEPT !.leaf_level = level]
        ELSE IF level = counted.leaf_level THEN counted
        ELSE failed(counted)
    ELSE IF is_none(node.child2) THEN failed(counted)
    ELSE
        LET child1 == unwrap(node.child1)
            child2 == unwrap(node.child2)
        IN
        IF ~validate_node_less_than(child1, node.elem1.key) THEN failed(counted)
        ELSE IF ~validate_node_greater_than(child2, node.elem1.key) THEN failed(counted)
        ELSE IF is_some(node.elem2) /\ is_none(node.child3) THEN failed(counted)
        ELSE IF is_some(node.elem2)
                /\ ~validate_node_greater_than(unwrap(node.child3),
                                               unwrap(node.elem2).key)
        THEN failed(counted)
        ELSE
            LET s1 == validate_node(child1, level + 1, counted)
                s2 == validate_node(child2, level + 1, s1)
            IN  IF is_some(node.child3)
                THEN validate_node(unwrap(node.child3), level + 1, s2)
                ELSE s2

validate(r, s) ==
    IF is_some(r) THEN
        LET state == validate_node(unwrap(r), 0, ValidateState) IN
        state.ok /\ state.elements = s
    ELSE TRUE

----------------------------------------------------------------------------
\* The data model of a tree value: what is stored, and its invariants.

\* The children of a node that are present, in order.
Children(node) == node.child1 \o node.child2 \o node.child3

\* The elements held by the node itself.
OwnElements(node) == <<node.elem1>> \o node.elem2

RECURSIVE InOrder(_)
\* The elements of the subtree in in-order: child1, elem1, child2, elem2, child3.
InOrder(node) ==
    (IF is_some(node.child1) THEN InOrder(unwrap(node.child1)) ELSE <<>>)
    \o <<node.elem1>>
    \o (IF is_some(node.child2) THEN InOrder(unwrap(node.child2)) ELSE <<>>)
    \o node.elem2
    \o (IF is_some(node.child3) THEN InOrder(unwrap(node.child3)) ELSE <<>>)

RECURSIVE Stored(_)
\* The elements stored in the nodes of the subtree, as a sequence (any order).
Stored(node) ==
    OwnElements(node)
    \o (IF is_some(node.child1) THEN Stored(unwrap(node.child1)) ELSE <<>>)
    \o (IF is_some(node.child2) THEN Stored(unwrap(node.child2)) ELSE <<>>)
    \o (IF is_some(node.child3) THEN Stored(unwrap(node.child3)) ELSE <<>>)

StoredOf(r) == IF is_some(r) THEN Stored(unwrap(r)) ELSE <<>>

RECURSIVE Count(_)
\* The number of elements stored in the nodes reachable from the root r.
Count(r) ==
    IF is_none(r) THEN 0
    ELSE LET node == unwrap(r) IN
         1 + Len(node.elem2)
           + Count(node.child1) + Count(node.child2) + Count(node.child3)

Range(seq) == {seq[i] : i \in 1..Len(seq)}

ElementsOf(r) == Range(StoredOf(r))

KeysOf(r) == {e.key : e \in ElementsOf(r)}

SubtreeKeys(child) == KeysOf(child)

RECURSIVE Ordered(_)
\* The ordering invariant, strict and over whole subtrees.
Ordered(node) ==
    /\ \A k \in SubtreeKeys(node.child1) : k < node.elem1.key
    /\ \A k \in SubtreeKeys(node.child2) : k > node.elem1.key
    /\ is_some(node.elem2) =>
          /\ node.elem1.key < unwrap(node.elem2).key
          /\ \A k \in SubtreeKeys(node.child2) : k < unwrap(node.elem2).key
          /\ \A k \in SubtreeKeys(node.child3) : k > unwrap(node.elem2).key
    /\ \A i \in 1..Len(Children(node)) : Ordered(Children(node)[i])

StrictlyIncreasing(seq) ==
    \A i \in 1..(Len(seq) - 1) : seq[i].key < seq[i + 1].key

RECURSIVE LeafDepths(_, _)
\* The depths at which the leaves (nodes without child1) of the subtree lie.
LeafDepths(node, level) ==
    IF is_none(node.child1) THEN {level}
    ELSE UNION {LeafDepths(Children(node)[i], level + 1) :
                    i \in 1..Len(Children(node))}

Balanced(r) == is_some(r) => Cardinality(LeafDepths(unwrap(r), 0)) = 1

Height(r) ==
    IF is_none(r) THEN 0
    ELSE LET d == LeafDepths(unwrap(r), 0) IN
         1 + (CHOOSE x \in d : \A y \in d : y <= x)

RECURSIVE Shaped(_)
\* The legal shapes of a node: a leaf, a 2-node with child1 and child2, or a
\* 3-node with child1, child2 and child3.
Shaped(node) ==
    /\ \/ is_none(node.child1) /\ is_none(node.child2) /\ is_none(node.child3)
       \/ /\ is_none(node.elem2)
          /\ is_some(node.child1) /\ is_some(node.child2) /\ is_none(node.child3)
       \/ /\ is_some(node.elem2)
          /\ is_some(node.child1) /\ is_some(node.child2) /\ is_some(node.child3)
    /\ \A i \in 1..Len(Children(node)) : Shaped(Children(node)[i])

----------------------------------------------------------------------------
\* The program: a tree made by new(), then insert of a key not stored, or
\* delete of any key.  map is the key -> value map the calls describe; last
\* records the last call, the value it returned and whether it panicked.

\* The value stored with key k by Insert.
ValueOf(k) == k

Init ==
    /\ root = None
    /\ size = 0
    /\ map = [k \in Keys |-> None]
    /\ last = [op |-> "new", ret |-> FALSE, panic |-> FALSE]

InsertElement(k, v) ==
    \E overflow_checks \in OverflowChecks :
    \E t \in {insert(root, size, Element(k, v), overflow_checks)} :
    /\ ~last.panic
    /\ root' = t.root
    /\ size' = t.size
    /\ map' = [map EXCEPT ![k] = Some(v)]
    /\ last' = [op |-> "insert", ret |-> FALSE, panic |-> t.panic]

Insert(k) ==
    /\ is_none(map[k])
    /\ InsertElement(k, ValueOf(k))

Delete(k) ==
    \E overflow_checks \in OverflowChecks :
    \E t \in {delete(root, size, k, overflow_checks)} :
    /\ ~last.panic
    /\ root' = t.root
    /\ size' = t.size
    /\ map' = [map EXCEPT ![k] = None]
    /\ last' = [op |-> "delete", ret |-> t.ret, panic |-> t.panic]

Next ==
    \/ \E k \in Keys : Insert(k)
    \/ \E k \in Keys : Delete(k)

Spec == Init /\ [][Next]_vars

----------------------------------------------------------------------------
\* validate() as a function of a tree value: the tree values of at most two
\* levels over the keys 1..VMaxKey, with any size field in 0..VMaxSize, well
\* formed or not, and one call of validate() on each.

VElements == {Element(k, k) : k \in 1..VMaxKey}

VOptElements == {None} \cup {Some(e) : e \in VElements}

VLeaves ==
    [elem1 : VElements, elem2 : VOptElements,
     child1 : {None}, child2 : {None}, child3 : {None}]

VOptLeaves == {None} \cup {Some(n) : n \in VLeaves}

VNodes ==
    [elem1 : VElements, elem2 : VOptElements,
     child1 : VOptLeaves, child2 : VOptLeaves, child3 : VOptLeaves]

InitValidate ==
    /\ root \in {None} \cup {Some(n) : n \in VNodes}
    /\ size \in 0..VMaxSize
    /\ map = [k \in Keys |-> None]
    /\ last = [op |-> "new", ret |-> FALSE, panic |-> FALSE]

Validate ==
    /\ last.op = "new"
    /\ last' = [op |-> "validate", ret |-> validate(root, size),
                panic |-> ~validate(root, size)]
    /\ UNCHANGED <<root, size, map>>

NextValidate == Validate

SpecValidate == InitValidate /\ [][NextValidate]_vars

----------------------------------------------------------------------------
\* Properties.

\* The element the calls so far say is stored with key k, if any.
Expected(k) == IF is_some(map[k]) THEN Some(Element(k, unwrap(map[k]))) ELSE None

\* The keys inserted and not deleted since.
Live == {k \in Keys : is_some(map[k])}

\* Every invariant of the data model holds of the tree value (r, s).
DataModelHolds(r, s) ==
    /\ is_some(r) => /\ Ordered(unwrap(r))
                     /\ Shaped(unwrap(r))
                     /\ Balanced(r)
    /\ s = Count(r)

\* The tree has a level of nodes between the root and the leaves.
HasInnerLevel(r) == Height(r) >= 3

\* C1: after every insert and delete, from new(), validate() does not fail.
C1_ValidatePasses == validate(root, size)

C1_Witness ==
    /\ last.op = "delete" /\ last.ret
    /\ HasInnerLevel(root)
    /\ validate(root, size)

\* C2: in every reachable state the ordering invariant holds of every node,
\* strictly and over whole subtrees, and the in-order traversal is strictly
\* increasing.
C2_Ordering ==
    is_some(root) => /\ Ordered(unwrap(root))
                     /\ StrictlyIncreasing(InOrder(unwrap(root)))

C2_Witness ==
    /\ last.op = "delete" /\ last.ret
    /\ HasInnerLevel(root)
    /\ is_some(unwrap(root).elem2)
    /\ Ordered(unwrap(root))

\* C3: in every reachable state all leaves are at the same depth.
C3_Balance == Balanced(root)

C3_Witness ==
    /\ last.op = "insert"
    /\ HasInnerLevel(root)
    /\ Len(StoredOf(root)) = MaxKey
    /\ Balanced(root)

\* C4: size() is the number of stored elements, which is the number of keys
\* inserted and not deleted; an insert adds exactly 1, a delete that returns
\* true subtracts exactly 1 without underflow, a delete that returns false
\* leaves it unchanged.
C4_Size ==
    /\ size = Count(root)
    /\ size = Cardinality(Live)
    /\ \A k \in Keys \ Live, overflow_checks \in OverflowChecks :
          LET t == insert(root, size, Element(k, ValueOf(k)), overflow_checks) IN
          /\ ~t.panic
          /\ t.size = size + 1
          /\ Count(t.root) = t.size
    /\ \A k \in Keys, overflow_checks \in OverflowChecks :
          LET d == delete(root, size, k, overflow_checks) IN
          /\ ~d.panic
          /\ d.size = (IF d.ret THEN size - 1 ELSE size)
          /\ d.size >= 0
          /\ Count(d.root) = d.size

C4_Witness ==
    /\ last.op = "delete" /\ last.ret
    /\ size = MaxKey - 1
    /\ size = Count(root)

\* C5: find(k) returns the element inserted with k when k was inserted and not
\* deleted since, and None otherwise.
C5_FindRefinesMap == \A k \in Keys : find(root, k) = Expected(k)

C5_Witness ==
    /\ last.op = "delete" /\ last.ret
    /\ HasInnerLevel(root)
    /\ \E k \in Keys : is_none(map[k]) /\ find(root, k) = None
    /\ \E k \in Keys : find(root, k) = Some(Element(k, ValueOf(k)))

\* C6: delete(key) returns true exactly when key is stored; then exactly the
\* element with that key is removed and every other element is still stored.
C6_DeleteRemovesExactlyKey ==
    LET before == StoredOf(root) IN
    \A k \in Keys, overflow_checks \in OverflowChecks :
        LET d == delete(root, size, k, overflow_checks)
            after == StoredOf(d.root)
        IN
        /\ d.ret <=> k \in {e.key : e \in Range(before)}
        /\ d.ret => /\ Range(after) = {e \in Range(before) : e.key # k}
                    /\ Len(after) = Len(before) - 1

C6_Witness ==
    /\ last.op = "delete" /\ last.ret
    /\ is_some(root)
    /\ KeysOf(root) = Live
    /\ Cardinality(Live) = MaxKey - 1

\* C7: delete(key) of a key that is not stored returns false and leaves the
\* root, every node and the size as they were.
C7_FailedDeleteChangesNothing ==
    \A k \in Keys \ KeysOf(root), overflow_checks \in OverflowChecks :
        delete(root, size, k, overflow_checks) =
            [root |-> root, size |-> size, ret |-> FALSE, panic |-> FALSE]

C7_Witness ==
    /\ last.op = "delete" /\ ~last.ret
    /\ HasInnerLevel(root)
    /\ KeysOf(root) # Keys

\* C8: once every inserted key is deleted the tree is empty (no root, size 0)
\* and any further delete returns false; until then the delete of an inserted
\* key returns true.
C8_DeleteAllEmpties ==
    /\ \A k \in Live, overflow_checks \in OverflowChecks :
          delete(root, size, k, overflow_checks).ret
    /\ Live = {} => /\ is_empty(root)
                    /\ size = 0
                    /\ \A k \in Keys, overflow_checks \in OverflowChecks :
                          ~delete(root, size, k, overflow_checks).ret

C8_Witness ==
    /\ last.op = "delete" /\ last.ret
    /\ Live = {}
    /\ is_empty(root)

\* C9: validate() fails on every tree value in which an invariant of the data
\* model is broken.
C9_ValidateDetectsAll ==
    (last.op = "validate" /\ ~DataModelHolds(root, size)) => ~last.ret

\* C10: after every insert and delete every reachable node is a leaf, a 2-node
\* with exactly child1 and child2, or a 3-node with exactly three children,
\* and no node keeps a deleted element.
C10_Shape ==
    /\ is_some(root) => Shaped(unwrap(root))
    /\ KeysOf(root) = Live

C10_Witness ==
    /\ last.op = "delete" /\ last.ret
    /\ Height(root) = 2
    /\ Cardinality(Live) = 3
    /\ Shaped(unwrap(root))

\* C11: delete never panics on a reachable tree: no panic!() is reached and no
\* unwrap() meets None; delete_node_upward and delete never see Downwards; a
\* frame passes Done(found) up as it is, and turns FixHole into Done(true) or
\* passes it up as it is.
C11_DeleteNeverPanics ==
    \A k \in Keys :
        LET fs == FramesOf(root, k) IN
        /\ \A overflow_checks \in OverflowChecks :
              ~delete(root, size, k, overflow_checks).panic
        /\ is_some(root) => FinalPhase(root, k) \in {Done(TRUE), Done(FALSE), FixHole}
        /\ \A i \in 1..Len(fs) :
              /\ fs[i].phase \in {Done(TRUE), Done(FALSE), FixHole}
              /\ fs[i].phase # FixHole => fs[i].out.state.phase = fs[i].phase
              /\ fs[i].phase = FixHole =>
                    fs[i].out.state.phase \in {Done(TRUE), FixHole}

C11_Witness ==
    /\ last.op = "delete" /\ last.ret /\ ~last.panic
    /\ \E k \in Keys :
          LET fs == FramesOf(root, k) IN
          /\ Len(fs) >= 2
          /\ fs[2].phase = FixHole /\ fs[2].out.state.phase = FixHole
          /\ fs[1].phase = FixHole /\ fs[1].out.state.phase = Done(TRUE)

\* The slot of a node with the given child number.
Slot(node, n) ==
    IF n = 1 THEN node.child1 ELSE IF n = 2 THEN node.child2 ELSE node.child3

RECURSIVE AbsorbedBelow(_, _, _, _)
\* The insert changed nothing in the first `levels` nodes of the search path
\* but the slot the path goes through, and the node after them, a 2-node
\* before, is a 3-node after.
AbsorbedBelow(old, new, element, levels) ==
    IF levels = 0 THEN is_none(old.elem2) /\ is_some(new.elem2)
    ELSE LET c == insert_child_num(old, element) IN
         /\ new.elem1 = old.elem1
         /\ new.elem2 = old.elem2
         /\ \A n \in {1, 2, 3} \ {c} : Slot(new, n) = Slot(old, n)
         /\ is_some(Slot(new, c))
         /\ AbsorbedBelow(unwrap(Slot(old, c)), unwrap(Slot(new, c)),
                          element, levels - 1)

\* The position on the path of its deepest 2-node.
DeepestTwoNode(path) ==
    CHOOSE i \in 1..Len(path) :
        /\ is_none(path[i].elem2)
        /\ \A j \in (i + 1)..Len(path) : is_some(path[j].elem2)

\* C12: an insert into a non-empty tree makes the tree one level higher
\* exactly when every node on the search path is a 3-node, and the new root is
\* then a 2-node over the two subtrees of the split; otherwise the height
\* stays, the deepest 2-node of the path becomes a 3-node and the nodes above
\* it keep their elements and their other children.
C12_InsertHeight ==
    is_some(root) =>
    \A k \in Keys \ Live, overflow_checks \in OverflowChecks :
        LET element == Element(k, ValueOf(k))
            path == InsertPath(unwrap(root), element)
            res == insert_node(unwrap(root), element)
            after == insert(root, size, element, overflow_checks).root
            all3 == \A i \in 1..Len(path) : is_some(path[i].elem2)
        IN
        /\ Height(after) = Height(root) + 1 <=> all3
        /\ all3 =>
              /\ is_some(res.result)
              /\ unwrap(after) = [elem1 |-> unwrap(res.result).parent_element,
                                  elem2 |-> None,
                                  child1 |-> Some(unwrap(res.result).child1),
                                  child2 |-> Some(unwrap(res.result).child2),
                                  child3 |-> None]
        /\ ~all3 =>
              /\ Height(after) = Height(root)
              /\ AbsorbedBelow(unwrap(root), unwrap(after), element,
                               DeepestTwoNode(path) - 1)

C12_Witness ==
    /\ last.op = "insert"
    /\ Height(root) = 2
    /\ \E k \in Keys \ Live :
          LET path == InsertPath(unwrap(root), Element(k, ValueOf(k))) IN
          \A i \in 1..Len(path) : is_some(path[i].elem2)
    /\ \E k \in Keys \ Live :
          LET path == InsertPath(unwrap(root), Element(k, ValueOf(k))) IN
          is_some(path[1].elem2) /\ is_none(path[2].elem2)

\* C13: when the root frame of a delete ends in FixHole, the new root is what
\* child1 of the old root holds, the tree is one level lower (empty if the root
\* was a leaf) and every element but the deleted one is still stored; a delete
\* that ends otherwise leaves the height as it was.
C13_RootCollapse ==
    LET before == ElementsOf(root) IN
    \A k \in Keys, overflow_checks \in OverflowChecks :
        LET d == delete(root, size, k, overflow_checks) IN
        /\ is_none(root) => Height(d.root) = Height(root)
        /\ is_some(root) =>
              LET res == delete_node(unwrap(root), DeleteState(k)) IN
              /\ res.state.phase = FixHole =>
                    /\ d.ret
                    /\ d.root = res.node.child1
                    /\ is_none(res.node.child3)
                    /\ Height(d.root) = Height(root) - 1
                    /\ is_none(unwrap(root).child1) => is_none(d.root)
                    /\ ElementsOf(d.root) = {e \in before : e.key # k}
                    /\ Count(d.root) = Count(root) - 1
              /\ res.state.phase # FixHole => Height(d.root) = Height(root)

C13_Witness ==
    /\ last.op = "delete" /\ last.ret
    /\ Height(root) = 3
    /\ \E k \in Keys :
          LET res == delete_node(unwrap(root), DeleteState(k)) IN
          res.state.phase = FixHole /\ is_some(res.node.child2)
    /\ \E k \in Keys :
          LET res == delete_node(unwrap(root), DeleteState(k)) IN
          res.state.phase = FixHole /\ is_none(res.node.child2)

\* The calls of delete_node_upward, among fs, that fix a hole by a merge.
MergeFrames(fs) ==
    {i \in 1..Len(fs) :
        /\ fs[i].phase = FixHole
        /\ is_none(hole_sibling(fs[i].node, fs[i].child_num).elem2)}

\* What a merge under a 3-node parent leaves: a 2-node with exactly two
\* children, the phase Done(true).
MergedUnderThreeNode(f) ==
    /\ is_none(f.out.node.elem2)
    /\ f.out.node.elem1 \in {f.node.elem1, unwrap(f.node.elem2)}
    /\ is_some(f.out.node.child1)
    /\ is_some(f.out.node.child2)
    /\ is_none(f.out.node.child3)
    /\ f.out.state.phase = Done(TRUE)

\* The statement of C14 as given: after a merge a 3-node parent is a 2-node
\* with exactly two children, and a 2-node parent has the merged node in
\* child1 and nothing in child2 and child3, wherever the hole was.
C14_MergeAsStated ==
    \A k \in Keys :
        LET fs == FramesOf(root, k) IN
        \A i \in MergeFrames(fs) :
            /\ is_some(fs[i].node.elem2) => MergedUnderThreeNode(fs[i])
            /\ is_none(fs[i].node.elem2) =>
                  /\ is_some(fs[i].out.node.child1)
                  /\ is_none(fs[i].out.node.child2)
                  /\ is_none(fs[i].out.node.child3)
                  /\ fs[i].out.state.phase = FixHole

\* C14: after a merge a 3-node parent is a 2-node with exactly two children;
\* a 2-node parent reports the hole upward with the merged 3-node in child1 and
\* nothing in child3, and its child2 is absent when the hole was the left child
\* but still holds the emptied hole node when the hole was the right child.
C14_Merge ==
    \A k \in Keys :
        LET fs == FramesOf(root, k) IN
        \A i \in MergeFrames(fs) :
            /\ is_some(fs[i].node.elem2) => MergedUnderThreeNode(fs[i])
            /\ is_none(fs[i].node.elem2) =>
                  /\ is_some(fs[i].out.node.child1)
                  /\ is_some(unwrap(fs[i].out.node.child1).elem2)
                  /\ is_none(fs[i].out.node.child3)
                  /\ fs[i].out.state.phase = FixHole
                  /\ fs[i].child_num = 1 => is_none(fs[i].out.node.child2)
                  /\ fs[i].child_num # 1 =>
                        fs[i].out.node.child2 =
                            Some([unwrap(fs[i].node.child2) EXCEPT !.child1 = None])

C14_Witness ==
    /\ last.op = "delete"
    /\ \E k \in Keys :
          LET fs == FramesOf(root, k) IN
          \E i \in MergeFrames(fs) :
              is_none(fs[i].node.elem2) /\ fs[i].child_num = 2
    /\ \E k \in Keys :
          LET fs == FramesOf(root, k) IN
          \E i \in MergeFrames(fs) :
              is_none(fs[i].node.elem2) /\ fs[i].child_num = 1
    /\ \E k \in Keys :
          LET fs == FramesOf(root, k) IN
          \E i \in MergeFrames(fs) :
              is_some(fs[i].node.elem2) /\ fs[i].child_num = 3

\* The number of elements and of children a node holds.
ElementCount(node) == 1 + Len(node.elem2)

ChildCount(node) == Len(node.child1) + Len(node.child2) + Len(node.child3)

\* The function (delete_node or find_predecessor) that made call i of fs.
FrameFunction(fs, i) == IF i = 1 THEN "delete_node" ELSE fs[i - 1].callee

\* C15: a call of delete_node_upward that receives FixHole leaves FixHole
\* exactly when its node is a 2-node and the sibling of the hole is a 2-node;
\* otherwise it leaves Done(true), and every call above it receives Done(true)
\* and changes nothing. A borrow (the sibling is a 3-node) leaves the node with
\* as many elements and as many children as before.
C15_HolePropagation ==
    \A k \in Keys :
        LET fs == FramesOf(root, k) IN
        \A i \in 1..Len(fs) :
            fs[i].phase = FixHole =>
                LET sibling == hole_sibling(fs[i].node, fs[i].child_num) IN
                /\ fs[i].out.state.phase = FixHole
                      <=> is_none(fs[i].node.elem2) /\ is_none(sibling.elem2)
                /\ fs[i].out.state.phase # FixHole =>
                      /\ fs[i].out.state.phase = Done(TRUE)
                      /\ \A j \in 1..(i - 1) :
                            /\ fs[j].phase = Done(TRUE)
                            /\ fs[j].out.node = fs[j].node
                            /\ fs[j].out.state.phase = Done(TRUE)
                /\ is_some(sibling.elem2) =>
                      /\ ElementCount(fs[i].out.node) = ElementCount(fs[i].node)
                      /\ ChildCount(fs[i].out.node) = ChildCount(fs[i].node)

C15_Witness ==
    /\ last.op = "delete"
    /\ \E k \in Keys :
          LET fs == FramesOf(root, k) IN
          /\ Len(fs) >= 2
          /\ FrameFunction(fs, 2) = "find_predecessor"
          /\ fs[2].phase = FixHole /\ fs[2].out.state.phase = FixHole
          /\ fs[1].phase = FixHole /\ fs[1].out.state.phase = Done(TRUE)
    /\ \E k \in Keys :
          LET fs == FramesOf(root, k) IN
          /\ Len(fs) >= 2
          /\ fs[2].phase = FixHole /\ fs[2].out.state.phase = Done(TRUE)
          /\ fs[1].phase = Done(TRUE)
    /\ \E k \in Keys :
          LET fs == FramesOf(root, k) IN
          \E i \in 1..Len(fs) :
              /\ FrameFunction(fs, i) = "delete_node"
              /\ fs[i].phase = FixHole
              /\ is_none(fs[i].node.elem2)
              /\ is_some(hole_sibling(fs[i].node, fs[i].child_num).elem2)
    /\ \E k \in Keys :
          LET fs == FramesOf(root, k) IN
          \E i \in 1..Len(fs) :
              /\ fs[i].phase = FixHole
              /\ is_some(fs[i].node.elem2)
              /\ is_none(hole_sibling(fs[i].node, fs[i].child_num).elem2)

\* C16: in every state reached from new() by inserts and deletes, is_empty()
\* holds exactly when size() is 0.
C16_EmptyIffSizeZero == is_empty(root) <=> size = 0

C16_Witness ==
    /\ last.op = "delete" /\ last.ret
    /\ is_empty(root)
    /\ size = 0

----------------------------------------------------------------------------
\* The tree under keys that are not distinct: any key of 1..DupMaxKey is
\* inserted, with the key as its value, whether it is stored or not, up to
\* DupMaxSize elements, and any key is deleted. The variable map is not used.

DupMaxKey == 3
DupMaxSize == 10

DupKeys == 1..DupMaxKey

InitDup == Init

InsertDup(k) ==
    \E overflow_checks \in OverflowChecks :
    \E t \in {insert(root, size, Element(k, ValueOf(k)), overflow_checks)} :
    /\ size < DupMaxSize
    /\ ~last.panic
    /\ root' = t.root
    /\ size' = t.size
    /\ last' = [op |-> "insert", ret |-> FALSE, panic |-> t.panic]
    /\ UNCHANGED map

DeleteDup(k) ==
    \E overflow_checks \in OverflowChecks :
    \E t \in {delete(root, size, k, overflow_checks)} :
    /\ ~last.panic
    /\ root' = t.root
    /\ size' = t.size
    /\ last' = [op |-> "delete", ret |-> t.ret, panic |-> t.panic]
    /\ UNCHANGED map

NextDup ==
    \/ \E k \in DupKeys : InsertDup(k)
    \/ \E k \in DupKeys : DeleteDup(k)

SpecDup == InitDup /\ [][NextDup]_vars

\* How many times e occurs in seq.
Occurrences(seq, e) == Cardinality({i \in 1..Len(seq) : seq[i] = e})

\* The sequence bigger holds what smaller holds and one more e.
OneMore(bigger, smaller, e) ==
    /\ Len(bigger) = Len(smaller) + 1
    /\ Occurrences(bigger, e) = Occurrences(smaller, e) + 1
    /\ \A x \in Range(bigger) \ {e} : Occurrences(bigger, x) = Occurrences(smaller, x)

NonDecreasing(seq) ==
    \A i \in 1..(Len(seq) - 1) : seq[i].key <= seq[i + 1].key

\* C17: with keys that are not distinct the tree is a multiset: size() is the
\* number of stored elements, the in-order traversal is non-decreasing, the
\* leaves are at one depth and validate() passes; every insert adds one
\* element; delete(k) returns true exactly when an element with key k is
\* stored and then removes exactly one such element; find(k) returns a stored
\* element with key k exactly when there is one.
C17_Multiset ==
    LET before == StoredOf(root) IN
    /\ ~last.panic
    /\ size = Len(before)
    /\ is_some(root) => NonDecreasing(InOrder(unwrap(root)))
    /\ Balanced(root)
    /\ validate(root, size)
    /\ \A k \in DupKeys, overflow_checks \in OverflowChecks :
          LET d == delete(root, size, k, overflow_checks)
              f == find(root, k)
              stored == \E e \in Range(before) : e.key = k
          IN
          /\ LET t == insert(root, size, Element(k, k), overflow_checks) IN
             /\ ~t.panic
             /\ t.size = size + 1
             /\ OneMore(StoredOf(t.root), before, Element(k, k))
          /\ ~d.panic
          /\ d.ret <=> stored
          /\ d.ret =>
                /\ d.size = size - 1
                /\ \E e \in Range(before) :
                      e.key = k /\ OneMore(before, StoredOf(d.root), e)
          /\ ~d.ret => d.root = root /\ d.size = size
          /\ is_some(f) <=> stored
          /\ is_some(f) => unwrap(f).key = k /\ unwrap(f) \in Range(before)

C17_Witness ==
    /\ last.op = "delete" /\ last.ret
    /\ Height(root) = 3
    /\ \E k \in DupKeys :
          /\ unwrap(root).elem1.key = k
          /\ \E e \in ElementsOf(unwrap(root).child1) : e.key = k
          /\ \E e \in ElementsOf(unwrap(root).child2) : e.key = k
          /\ Occurrences(StoredOf(root), unwrap(root).elem1) >= 2

====
